---- MODULE Spec2Model ----
(***************************************************************************)
(* Model of src/solution.py: StructuredExtractor, the pipeline that turns  *)
(* a model response into a seven-field material-order record.              *)
(*                                                                         *)
(* Representation.  A Python str is a sequence of one-character strings    *)
(* (the grave accent, which a TLA+ string cannot hold, is the string       *)
(* "backtick").                                                            *)
(* A Python value is a record tagged by its type in field t.  The text of  *)
(* a model response is a sequence of lexemes (punctuation, string and      *)
(* number literals, bare words, whitespace runs, code fences); Render      *)
(* gives the characters of a lexeme sequence.  String literals of the      *)
(* enumerated responses contain no brace, backtick, quote or escape.       *)
(***************************************************************************)
EXTENDS Integers, Sequences, FiniteSets, TLC

(***************************************************************************)
(* Characters and strings                                                  *)
(***************************************************************************)
EmptyStr == << >>

UpperAlphabet == <<"A","B","C","D","E","F","G","H","I","J","K","L","M","N","O","P","Q","R","S","T","U","V","W","X","Y","Z">>

LowerAlphabet == <<"a","b","c","d","e","f","g","h","i","j","k","l","m","n","o","p","q","r","s","t","u","v","w","x","y","z">>

DigitChars == <<"0","1","2","3","4","5","6","7","8","9">>

IndexIn(ch, alphabet) == CHOOSE i \in 1..Len(alphabet) : alphabet[i] = ch

IsIn(ch, alphabet) == \E i \in 1..Len(alphabet) : alphabet[i] = ch

\* str.lower() on the characters the enumerated texts use
LowerChar(ch) == IF IsIn(ch, UpperAlphabet) THEN LowerAlphabet[IndexIn(ch, UpperAlphabet)] ELSE ch

Lower(s) == [i \in 1..Len(s) |-> LowerChar(s[i])]

\* regex \s
IsSpace(ch) == ch \in {" ", "\n", "\t", "\r"}

\* regex \d
IsDigit(ch) == IsIn(ch, DigitChars)

\* regex \w
IsWordChar(ch) == IsIn(ch, LowerAlphabet) \/ IsIn(ch, UpperAlphabet) \/ IsDigit(ch) \/ ch = "_"

\* s[i:j] with 1-based inclusive bounds, empty when the range is empty
Slice(s, i, j) == IF i > j THEN EmptyStr ELSE SubSeq(s, i, j)

\* kw in s  (substring test)
Contains(s, kw) == \E i \in 1..(Len(s) - Len(kw) + 1) : SubSeq(s, i, i + Len(kw) - 1) = kw

\* s[i:] starts with kw
StartsAt(s, i, kw) == i >= 1 /\ i + Len(kw) - 1 <= Len(s) /\ SubSeq(s, i, i + Len(kw) - 1) = kw

\* str.strip()
RECURSIVE LStrip(_)
LStrip(s) == IF s # EmptyStr /\ IsSpace(Head(s)) THEN LStrip(Tail(s)) ELSE s

RECURSIVE RStrip(_)
RStrip(s) == IF s # EmptyStr /\ IsSpace(s[Len(s)]) THEN RStrip(SubSeq(s, 1, Len(s) - 1)) ELSE s

Strip(s) == RStrip(LStrip(s))

\* the index of the first character at or after i that fails the test given as a set of characters
RECURSIVE SkipSpaces(_, _)
SkipSpaces(s, i) == IF i <= Len(s) /\ IsSpace(s[i]) THEN SkipSpaces(s, i + 1) ELSE i

RECURSIVE SkipDigits(_, _)
SkipDigits(s, i) == IF i <= Len(s) /\ IsDigit(s[i]) THEN SkipDigits(s, i + 1) ELSE i

RECURSIVE SkipWordChars(_, _)
SkipWordChars(s, i) == IF i <= Len(s) /\ IsWordChar(s[i]) THEN SkipWordChars(s, i + 1) ELSE i

DigitValue(ch) == IndexIn(ch, DigitChars) - 1

\* the decimal digits of a natural number
RECURSIVE Digits(_)
Digits(n) == IF n < 10 THEN <<DigitChars[n + 1]>> ELSE Digits(n \div 10) \o <<DigitChars[(n % 10) + 1]>>

\* format spec 02d
Pad2(n) == IF n < 10 THEN <<"0">> \o Digits(n) ELSE Digits(n)

\* format %Y of strftime (four digits)
Pad4(n) == LET Pad(ds) == [i \in 1..(4 - Len(ds)) |-> "0"] \o ds IN Pad(Digits(n))

\* the value of a string of decimal digits (at most nine of them)
RECURSIVE DigitsValue(_)
DigitsValue(s) == IF s = EmptyStr THEN 0 ELSE 10 * DigitsValue(SubSeq(s, 1, Len(s) - 1)) + DigitValue(s[Len(s)])

AllDigits(s) == \A i \in 1..Len(s) : IsDigit(s[i])

RECURSIVE StripZeros(_)
StripZeros(s) == IF Len(s) > 1 /\ Head(s) = "0" THEN StripZeros(Tail(s)) ELSE s

Min(a, b) == IF a <= b THEN a ELSE b

(***************************************************************************)
(* Python values                                                           *)
(***************************************************************************)
PyNone == [t |-> "none"]

PyStr(s) == [t |-> "str", s |-> s]

PyBool(b) == [t |-> "bool", b |-> b]

\* a number is m * 10^e, kept with m free of trailing zeros
RECURSIVE NormNum(_, _)
NormNum(m, e) == IF m = 0 THEN <<0, 0>> ELSE IF m % 10 = 0 THEN NormNum(m \div 10, e + 1) ELSE <<m, e>>

PyInt(m, e) == LET Of(n) == [t |-> "int", m |-> n[1], e |-> n[2]] IN Of(NormNum(m, e))

PyFloat(m, e) == LET Of(n) == [t |-> "float", m |-> n[1], e |-> n[2]] IN Of(NormNum(m, e))

PyList(items) == [t |-> "list", items |-> items]

PyDict(d) == [t |-> "dict", d |-> d]

EmptyDict == << >>

\* d[k] = v on a dict d
DictSet(d, k, v) == [x \in DOMAIN d \cup {k} |-> IF x = k THEN v ELSE d[x]]

\* bool(v), the truth value of a Python value
Truthy(v) ==
  CASE v.t = "none" -> FALSE
    [] v.t = "str" -> v.s # EmptyStr
    [] v.t = "bool" -> v.b
    [] v.t = "int" -> v.m # 0
    [] v.t = "float" -> v.m # 0
    [] v.t = "list" -> v.items # << >>
    [] v.t = "dict" -> DOMAIN v.d # {}

\* exceptions, by class and message
Exc(cls, msg) == [cls |-> cls, msg |-> msg]

Returned(v) == [ok |-> TRUE, val |-> v]

Raised(cls, msg) == [ok |-> FALSE, exc |-> Exc(cls, msg)]

(***************************************************************************)
(* Calendar: datetime, timedelta, calendar.monthrange                      *)
(***************************************************************************)
IsLeap(y) == y % 4 = 0 /\ (y % 100 # 0 \/ y % 400 = 0)

\* calendar.monthrange(year, month)[1]
DaysInMonth(y, m) ==
  IF m = 2 THEN (IF IsLeap(y) THEN 29 ELSE 28)
  ELSE IF m \in {4, 6, 9, 11} THEN 30 ELSE 31

RECURSIVE DaysBeforeMonth(_, _)
DaysBeforeMonth(y, m) == IF m = 1 THEN 0 ELSE DaysBeforeMonth(y, m - 1) + DaysInMonth(y, m - 1)

DaysBeforeYear(y) == (y - 1) * 365 + (y - 1) \div 4 - (y - 1) \div 100 + (y - 1) \div 400

\* proleptic Gregorian ordinal of a date, 0001-01-01 being day 1
Ordinal(y, m, d) == DaysBeforeYear(y) + DaysBeforeMonth(y, m) + d

MaxYear == 9999

MaxOrdinal == Ordinal(MaxYear, 12, 31)

\* the year that holds ordinal n
YearOfOrdinal(n) ==
  LET Year(n400, n100, n4, n1) ==
        IF n1 = 4 \/ n100 = 4 THEN n400 * 400 + n100 * 100 + n4 * 4 + n1
        ELSE n400 * 400 + n100 * 100 + n4 * 4 + n1 + 1
      In4(n400, n100, n4, r4) == Year(n400, n100, n4, r4 \div 365)
      In100(n400, n100, r100) == In4(n400, n100, r100 \div 1461, r100 % 1461)
      In400(n400, r400) == In100(n400, r400 \div 36524, r400 % 36524)
  IN In400((n - 1) \div 146097, (n - 1) % 146097)

RECURSIVE MonthOfDayInYear(_, _, _)
MonthOfDayInYear(y, m, doy) == IF doy <= DaysInMonth(y, m) THEN m ELSE MonthOfDayInYear(y, m + 1, doy - DaysInMonth(y, m))

\* the date of ordinal n
DateOfOrdinal(n) ==
  LET Day(y, m, doy) == [year |-> y, month |-> m, day |-> doy - DaysBeforeMonth(y, m)]
      Month(y, doy) == Day(y, MonthOfDayInYear(y, 1, doy), doy)
      Year(y) == Month(y, n - DaysBeforeYear(y))
  IN Year(YearOfOrdinal(n))

\* a naive datetime: a date and the seconds since its midnight
DateTime(y, m, d, secs) == [year |-> y, month |-> m, day |-> d, secs |-> secs]

\* (a - b).days for naive datetimes a, b: the floor of the difference in days
DaysBetween(a, b) ==
  (Ordinal(a.year, a.month, a.day) - Ordinal(b.year, b.month, b.day))
    + (IF a.secs < b.secs THEN -1 ELSE 0)

\* strftime('%Y-%m-%d')
FormatDate(dt) == Pad4(dt.year) \o <<"-">> \o Pad2(dt.month) \o <<"-">> \o Pad2(dt.day)

\* a valid calendar date
ValidDate(y, m, d) == y \in 1..MaxYear /\ m \in 1..12 /\ d \in 1..DaysInMonth(y, m)

\* s is YYYY-MM-DD naming a valid calendar date
IsIsoDate(s) ==
  /\ Len(s) = 10
  /\ s[5] = "-" /\ s[8] = "-"
  /\ AllDigits(SubSeq(s, 1, 4)) /\ AllDigits(SubSeq(s, 6, 7)) /\ AllDigits(SubSeq(s, 9, 10))
  /\ ValidDate(DigitsValue(SubSeq(s, 1, 4)), DigitsValue(SubSeq(s, 6, 7)), DigitsValue(SubSeq(s, 9, 10)))

\* s is HH, HH:MM or HH:MM:SS
IsIsoTime(s) ==
  /\ Len(s) \in {2, 5, 8}
  /\ \A i \in 1..Len(s) : IF i \in {3, 6} THEN s[i] = ":" ELSE IsDigit(s[i])
  /\ DigitsValue(SubSeq(s, 1, 2)) <= 23
  /\ Len(s) >= 5 => DigitsValue(SubSeq(s, 4, 5)) <= 59
  /\ Len(s) >= 8 => DigitsValue(SubSeq(s, 7, 8)) <= 59

IsoTimeSecs(s) ==
  3600 * DigitsValue(SubSeq(s, 1, 2))
    + (IF Len(s) >= 5 THEN 60 * DigitsValue(SubSeq(s, 4, 5)) ELSE 0)
    + (IF Len(s) >= 8 THEN DigitsValue(SubSeq(s, 7, 8)) ELSE 0)

\* datetime.fromisoformat accepts s, for s in the extended format:
\* YYYY-MM-DD, alone or followed by one separator character and a time of day
IsoParses(s) ==
  \/ IsIsoDate(s)
  \/ Len(s) \in {13, 16, 19} /\ IsIsoDate(SubSeq(s, 1, 10)) /\ IsIsoTime(SubSeq(s, 12, Len(s)))

\* datetime.fromisoformat(v): a datetime, ValueError for a string it does
\* not accept, TypeError for a value that is not a string
FromIsoFormat(v) ==
  LET Parse(s) ==
        IF ~IsoParses(s) THEN Raised("ValueError", <<"I","n","v","a","l","i","d"," ","i","s","o","f","o","r","m","a","t"," ","s","t","r","i","n","g">>)
        ELSE Returned(DateTime(DigitsValue(SubSeq(s, 1, 4)), DigitsValue(SubSeq(s, 6, 7)),
                               DigitsValue(SubSeq(s, 9, 10)),
                               IF Len(s) = 10 THEN 0 ELSE IsoTimeSecs(SubSeq(s, 12, Len(s)))))
  IN IF v.t # "str" THEN Raised("TypeError", <<"f","r","o","m","i","s","o","f","o","r","m","a","t",":"," ","a","r","g","u","m","e","n","t"," ","m","u","s","t"," ","b","e"," ","s","t","r">>)
     ELSE Parse(v.s)

\* now + timedelta(days=n): OverflowError past year 9999
AddDays(now, n) ==
  LET At(dte) == Returned(DateTime(dte.year, dte.month, dte.day, now.secs))
      To(target) ==
        IF target > MaxOrdinal THEN Raised("OverflowError", <<"d","a","t","e"," ","v","a","l","u","e"," ","o","u","t"," ","o","f"," ","r","a","n","g","e">>)
        ELSE At(DateOfOrdinal(target))
  IN To(Ordinal(now.year, now.month, now.day) + n)

(***************************************************************************)
(* StructuredExtractor: tables                                             *)
(***************************************************************************)
Low == <<"l","o","w">>

Medium == <<"m","e","d","i","u","m">>

High == <<"h","i","g","h">>

\* the urgency levels with their keywords, in the order the dict lists them
\* URGENCY_KEYWORDS scanned from low to high
URGENCY_KEYWORDS_lowFirst ==
  << [level |-> Low,
      keywords |-> << <<"e","v","e","n","t","u","a","l","l","y">>, <<"w","h","e","n"," ","p","o","s","s","i","b","l","e">> >>],
     [level |-> Medium,
      keywords |-> << <<"s","o","o","n">>, <<"n","e","e","d","e","d">>, <<"r","e","q","u","i","r","e","d">>, <<"p","r","i","o","r","i","t","y">> >>],
     [level |-> High,
      keywords |-> << <<"u","r","g","e","n","t">>, <<"u","r","g","e","n","t","l","y">>, <<"a","s","a","p">>, <<"i","m","m","e","d","i","a","t","e","l","y">>, <<"t","o","d","a","y">>,
                      <<"t","o","m","o","r","r","o","w">>, <<"c","r","i","t","i","c","a","l">>, <<"e","m","e","r","g","e","n","c","y">> >>] >>

URGENCY_KEYWORDS ==
  << [level |-> High,
      keywords |-> << <<"u","r","g","e","n","t">>, <<"u","r","g","e","n","t","l","y">>, <<"a","s","a","p">>, <<"i","m","m","e","d","i","a","t","e","l","y">>, <<"t","o","d","a","y">>,
                      <<"t","o","m","o","r","r","o","w">>, <<"c","r","i","t","i","c","a","l">>, <<"e","m","e","r","g","e","n","c","y">> >>],
     [level |-> Medium,
      keywords |-> << <<"s","o","o","n">>, <<"n","e","e","d","e","d">>, <<"r","e","q","u","i","r","e","d">>, <<"p","r","i","o","r","i","t","y">> >>],
     [level |-> Low,
      keywords |-> << <<"e","v","e","n","t","u","a","l","l","y">>, <<"w","h","e","n"," ","p","o","s","s","i","b","l","e">> >>] >>

K_material_name == <<"m","a","t","e","r","i","a","l","_","n","a","m","e">>

K_quantity == <<"q","u","a","n","t","i","t","y">>

K_unit == <<"u","n","i","t">>

K_project_name == <<"p","r","o","j","e","c","t","_","n","a","m","e">>

K_location == <<"l","o","c","a","t","i","o","n">>

K_urgency == <<"u","r","g","e","n","c","y">>

K_deadline == <<"d","e","a","d","l","i","n","e">>

K_error == <<"e","r","r","o","r">>

K_input_text == <<"i","n","p","u","t","_","t","e","x","t">>

required_fields == << K_material_name, K_quantity, K_unit, K_project_name, K_location, K_urgency, K_deadline >>

RequiredSet == {required_fields[i] : i \in 1..Len(required_fields)}

month_map == << <<"j","a","n","u","a","r","y">>, <<"f","e","b","r","u","a","r","y">>, <<"m","a","r","c","h">>, <<"a","p","r","i","l">>, <<"m","a","y">>, <<"j","u","n","e">>, <<"j","u","l","y">>,
                <<"a","u","g","u","s","t">>, <<"s","e","p","t","e","m","b","e","r">>, <<"o","c","t","o","b","e","r">>, <<"n","o","v","e","m","b","e","r">>, <<"d","e","c","e","m","b","e","r">> >>

(***************************************************************************)
(* _infer_urgency                                                          *)
(***************************************************************************)
\* any(keyword in text_lower for keyword in keywords)
AnyKeyword(text_lower, keywords) == \E k \in 1..Len(keywords) : Contains(text_lower, keywords[k])

\* days_until < 7 -> high, < 30 -> medium, else low
UrgencyOfDays(days_until) == IF days_until < 7 THEN High ELSE IF days_until < 30 THEN Medium ELSE Low

InferUrgency(text, deadline, now) ==
  LET Proximity(parsed) ==
        IF parsed.ok THEN UrgencyOfDays(DaysBetween(parsed.val, now))
        ELSE Low   \* ValueError and TypeError are caught
      Keywords(hits) ==
        IF hits # {} THEN URGENCY_KEYWORDS[CHOOSE i \in hits : \A j \in hits : i <= j].level
        ELSE IF Truthy(deadline) THEN Proximity(FromIsoFormat(deadline))
        ELSE Low
      Scan(text_lower) ==
        Keywords({i \in 1..Len(URGENCY_KEYWORDS) : AnyKeyword(text_lower, URGENCY_KEYWORDS[i].keywords)})
  IN Scan(Lower(text))

(***************************************************************************)
(* _parse_relative_date                                                    *)
(***************************************************************************)
\* in\s+(\d+)\s+days? matches at i
DaysMatchAt(s, i) ==
  LET Tail3(k, l) == l > k /\ StartsAt(s, l, <<"d","a","y">>)
      Tail2(j, k) == k > j /\ Tail3(k, SkipSpaces(s, k))
      Tail1(j) == j > i + 2 /\ Tail2(j, SkipDigits(s, j))
  IN StartsAt(s, i, <<"i","n">>) /\ Tail1(SkipSpaces(s, i + 2))

\* group(1) of the match at i
DaysMatchGroup(s, i) == LET From(j) == SubSeq(s, j, SkipDigits(s, j) - 1) IN From(SkipSpaces(s, i + 2))

\* by\s+(\w+)\s+end matches at i
MonthEndMatchAt(s, i) ==
  LET Tail3(k, l) == l > k /\ StartsAt(s, l, <<"e","n","d">>)
      Tail2(j, k) == k > j /\ Tail3(k, SkipSpaces(s, k))
      Tail1(j) == j > i + 2 /\ Tail2(j, SkipWordChars(s, j))
  IN StartsAt(s, i, <<"b","y">>) /\ Tail1(SkipSpaces(s, i + 2))

MonthEndMatchGroup(s, i) == LET From(j) == SubSeq(s, j, SkipWordChars(s, j) - 1) IN From(SkipSpaces(s, i + 2))

\* re.search: the leftmost position where the pattern matches, 0 for no match
FirstMatch(pos) == IF pos = {} THEN 0 ELSE CHOOSE i \in pos : \A j \in pos : i <= j

\* int(group) and timedelta(days=...): a count of days, OverflowError beyond what timedelta takes
MaxDayDigits == 9

ParseRelativeDate(text, now) ==
  LET Format(target) == IF target.ok THEN Returned(PyStr(FormatDate(target.val))) ELSE target
      InDays(digits) ==
        IF Len(digits) > MaxDayDigits
          THEN Raised("OverflowError", <<"P","y","t","h","o","n"," ","i","n","t"," ","t","o","o"," ","l","a","r","g","e"," ","t","o"," ","c","o","n","v","e","r","t"," ","t","o"," ","C"," ","i","n","t">>)
        ELSE Format(AddDays(now, DigitsValue(digits)))
      EndOf(year, month) ==
        Returned(PyStr(Digits(year) \o <<"-">> \o Pad2(month) \o <<"-">>
                         \o Pad2(IF month = 12 THEN 31 ELSE DaysInMonth(year, month))))
      MonthEnd(month_name) ==
        IF \E m \in 1..Len(month_map) : month_map[m] = month_name
          THEN EndOf(now.year, CHOOSE m \in 1..Len(month_map) : month_map[m] = month_name)
        ELSE Returned(PyNone)
      Rules(text_lower, days_match, month_end_match) ==
        IF days_match # 0 THEN InDays(StripZeros(DaysMatchGroup(text_lower, days_match)))
        ELSE IF month_end_match # 0 THEN MonthEnd(MonthEndMatchGroup(text_lower, month_end_match))
        ELSE Returned(PyNone)
      Search(text_lower) ==
        Rules(text_lower, FirstMatch({i \in 1..Len(text_lower) : DaysMatchAt(text_lower, i)}),
              FirstMatch({i \in 1..Len(text_lower) : MonthEndMatchAt(text_lower, i)}))
  IN Search(Lower(text))

(***************************************************************************)
(* float(), str()                                                          *)
(***************************************************************************)
\* the number of decimal digits of m > 0
NumDigits(m) == Len(Digits(m))

RECURSIVE Pow10(_)
Pow10(n) == IF n = 0 THEN 1 ELSE 10 * Pow10(n - 1)

\* int m * 10^e (m < 10^7) rounds to a float beyond the largest double, 1.7976931348623157e308
FloatOverflows(m, e) ==
  LET Beyond(a, digits) ==
        a # 0 /\ (digits + e - 1 > 308 \/ (digits + e - 1 = 308 /\ a * Pow10(7 - digits) >= 1797694))
      Of(a) == Beyond(a, NumDigits(a))
  IN Of(IF m < 0 THEN 0 - m ELSE m)

\* s is digits, or digits "." digits, after an optional sign
IsDecimal(s) ==
  LET Form(body, dots) ==
        /\ body # EmptyStr
        /\ Cardinality(dots) <= 1
        /\ \A i \in 1..Len(body) : i \in dots \/ IsDigit(body[i])
        /\ \A i \in dots : i > 1 /\ i < Len(body)
      Body(body) == Form(body, {i \in 1..Len(body) : body[i] = "."})
  IN Body(IF s # EmptyStr /\ Head(s) \in {"-", "+"} THEN Tail(s) ELSE s)

\* the float a decimal string denotes
DecimalValue(s) ==
  LET Value(neg, whole, frac) ==
        PyFloat((IF neg THEN -1 ELSE 1) * DigitsValue(whole \o frac), 0 - Len(frac))
      Split(neg, body, dot) == Value(neg, SubSeq(body, 1, dot - 1), Slice(body, dot + 1, Len(body)))
      Dot(neg, body, dots) ==
        Split(neg, body, IF dots = {} THEN Len(body) + 1 ELSE CHOOSE i \in dots : TRUE)
      Body(neg, body) == Dot(neg, body, {i \in 1..Len(body) : body[i] = "."})
  IN Body(Head(s) = "-", IF Head(s) \in {"-", "+"} THEN Tail(s) ELSE s)

\* float(v)
FloatOf(v) ==
  LET OfStr(s) ==
        IF IsDecimal(s) THEN Returned(DecimalValue(s))
        ELSE Raised("ValueError", <<"c","o","u","l","d"," ","n","o","t"," ","c","o","n","v","e","r","t"," ","s","t","r","i","n","g"," ","t","o"," ","f","l","o","a","t">>)
  IN CASE v.t = "float" -> Returned(v)
       [] v.t = "int" -> IF FloatOverflows(v.m, v.e)
                           THEN Raised("OverflowError", <<"i","n","t"," ","t","o","o"," ","l","a","r","g","e"," ","t","o"," ","c","o","n","v","e","r","t"," ","t","o"," ","f","l","o","a","t">>)
                         ELSE Returned(PyFloat(v.m, v.e))
       [] v.t = "bool" -> Returned(PyFloat(IF v.b THEN 1 ELSE 0, 0))
       [] v.t = "str" -> OfStr(Strip(v.s))
       [] OTHER -> Raised("TypeError", <<"f","l","o","a","t","(",")"," ","a","r","g","u","m","e","n","t"," ","m","u","s","t"," ","b","e"," ","a"," ","s","t","r","i","n","g"," ","o","r"," ","a"," ","r","e","a","l"," ","n","u","m","b","e","r">>)

Zeros(n) == [i \in 1..n |-> "0"]

\* the digits of integer m * 10^e, e >= 0
IntText(m, e) == (IF m < 0 THEN <<"-">> \o Digits(0 - m) ELSE Digits(m)) \o (IF m = 0 THEN EmptyStr ELSE Zeros(e))

\* repr of a float m * 10^e in positional notation (magnitude below 1e16)
FloatText(m, e) ==
  LET Text(sign, ds) ==
        IF e >= 0 THEN sign \o ds \o (IF m = 0 THEN EmptyStr ELSE Zeros(e)) \o <<".","0">>
        ELSE IF Len(ds) > 0 - e
          THEN sign \o SubSeq(ds, 1, Len(ds) + e) \o <<".">> \o SubSeq(ds, Len(ds) + e + 1, Len(ds))
        ELSE sign \o <<"0",".">> \o Zeros((0 - e) - Len(ds)) \o ds
  IN Text(IF m < 0 THEN <<"-">> ELSE EmptyStr, Digits(IF m < 0 THEN 0 - m ELSE m))

RECURSIVE ReprOf(_)
RECURSIVE JoinRepr(_)
\* ", ".join(repr(x) for x in items)
JoinRepr(items) ==
  IF items = << >> THEN EmptyStr
  ELSE IF Len(items) = 1 THEN ReprOf(items[1])
  ELSE ReprOf(items[1]) \o <<","," ">> \o JoinRepr(Tail(items))

\* repr(v); a dict is rendered for at most one key
ReprOf(v) ==
  CASE v.t = "none" -> <<"N","o","n","e">>
    [] v.t = "bool" -> IF v.b THEN <<"T","r","u","e">> ELSE <<"F","a","l","s","e">>
    [] v.t = "int" -> IntText(v.m, v.e)
    [] v.t = "float" -> FloatText(v.m, v.e)
    [] v.t = "str" -> <<"'">> \o v.s \o <<"'">>
    [] v.t = "list" -> <<"[">> \o JoinRepr(v.items) \o <<"]">>
    [] v.t = "dict" -> IF DOMAIN v.d = {} THEN <<"{","}">>
                       ELSE LET k == CHOOSE x \in DOMAIN v.d : TRUE
                            IN <<"{","'">> \o k \o <<"'",":"," ">> \o ReprOf(v.d[k]) \o <<"}">>

\* str(v)
StrOf(v) == IF v.t = "str" THEN v.s ELSE ReprOf(v)

(***************************************************************************)
(* Response text: lexemes, their characters, json.loads                    *)
(***************************************************************************)
Tok(k, s) == [k |-> k, s |-> s]

LBrace == Tok("punct", <<"{">>)

RBrace == Tok("punct", <<"}">>)

LBrack == Tok("punct", <<"[">>)

RBrack == Tok("punct", <<"]">>)

Colon == Tok("punct", <<":">>)

Comma == Tok("punct", <<",">>)

Fence == Tok("fence", <<"backtick","backtick","backtick">>)

Ws(s) == Tok("ws", s)

Word(s) == Tok("word", s)

StrLit(s) == Tok("str", s)

NumLit(s) == Tok("num", s)

\* the characters of one lexeme
RenderTok(tk) == IF tk.k = "str" THEN <<"\"">> \o tk.s \o <<"\"">> ELSE tk.s

\* the characters of a text
RECURSIVE Render(_)
Render(toks) == IF toks = << >> THEN EmptyStr ELSE RenderTok(Head(toks)) \o Render(Tail(toks))

\* the text without the leading and trailing whitespace (str.strip)
RECURSIVE StripText(_)
StripText(toks) ==
  IF toks = << >> THEN toks
  ELSE IF Head(toks).k = "ws" THEN StripText(Tail(toks))
  ELSE IF toks[Len(toks)].k = "ws" THEN StripText(SubSeq(toks, 1, Len(toks) - 1))
  ELSE toks

RECURSIVE SkipWs(_, _)
SkipWs(toks, i) == IF i <= Len(toks) /\ toks[i].k = "ws" THEN SkipWs(toks, i + 1) ELSE i

\* the number of zeros that end a string of digits
TrailingZeros(s) ==
  LET After(nz) == IF nz = {} THEN Len(s) - 1 ELSE Len(s) - (CHOOSE i \in nz : \A j \in nz : i >= j)
  IN After({i \in 1..Len(s) : s[i] # "0"})

\* the number a JSON number literal denotes: an int for digits, else a float
NumberOf(s) ==
  LET Integral(neg, body, z) ==
        PyInt((IF neg THEN -1 ELSE 1) * DigitsValue(SubSeq(body, 1, Len(body) - z)), z)
      Of(neg, body) == IF AllDigits(body) THEN Integral(neg, body, TrailingZeros(body)) ELSE DecimalValue(s)
  IN Of(Head(s) = "-", IF Head(s) = "-" THEN Tail(s) ELSE s)

ParseFail == [ok |-> FALSE, val |-> PyNone, next |-> 0]

ParseOk(v, next) == [ok |-> TRUE, val |-> v, next |-> next]

RECURSIVE ParseValue(_, _)
RECURSIVE ParseMembers(_, _, _)
RECURSIVE ParseItems(_, _, _)
\* the members of an object from lexeme i on, the first key being at i
ParseMembers(toks, i, acc) ==
  LET After(v, n) ==
        IF ~v.ok \/ n > Len(toks) THEN ParseFail
        ELSE IF toks[n] = RBrace THEN ParseOk(PyDict(DictSet(acc, toks[i].s, v.val)), n + 1)
        ELSE IF toks[n] = Comma THEN ParseMembers(toks, SkipWs(toks, n + 1), DictSet(acc, toks[i].s, v.val))
        ELSE ParseFail
      Value(v) == After(v, SkipWs(toks, v.next))
      Member(c) ==
        IF c > Len(toks) \/ toks[c] # Colon THEN ParseFail
        ELSE Value(ParseValue(toks, SkipWs(toks, c + 1)))
  IN IF i > Len(toks) \/ toks[i].k # "str" THEN ParseFail
     ELSE Member(SkipWs(toks, i + 1))

\* the items of an array from lexeme i on
ParseItems(toks, i, acc) ==
  LET After(v, n) ==
        IF ~v.ok \/ n > Len(toks) THEN ParseFail
        ELSE IF toks[n] = RBrack THEN ParseOk(PyList(Append(acc, v.val)), n + 1)
        ELSE IF toks[n] = Comma THEN ParseItems(toks, SkipWs(toks, n + 1), Append(acc, v.val))
        ELSE ParseFail
      Value(v) == After(v, SkipWs(toks, v.next))
  IN Value(ParseValue(toks, i))

\* the JSON value that starts at lexeme i
ParseValue(toks, i) ==
  LET At(tk, j) ==
        CASE tk.k = "str" -> ParseOk(PyStr(tk.s), i + 1)
          [] tk.k = "num" -> ParseOk(NumberOf(tk.s), i + 1)
          [] tk = Word(<<"n","u","l","l">>) -> ParseOk(PyNone, i + 1)
          [] tk = Word(<<"t","r","u","e">>) -> ParseOk(PyBool(TRUE), i + 1)
          [] tk = Word(<<"f","a","l","s","e">>) -> ParseOk(PyBool(FALSE), i + 1)
          [] tk = LBrace -> IF j <= Len(toks) /\ toks[j] = RBrace THEN ParseOk(PyDict(EmptyDict), j + 1)
                            ELSE ParseMembers(toks, j, EmptyDict)
          [] tk = LBrack -> IF j <= Len(toks) /\ toks[j] = RBrack THEN ParseOk(PyList(<< >>), j + 1)
                            ELSE ParseItems(toks, j, << >>)
          [] OTHER -> ParseFail
  IN IF i > Len(toks) THEN ParseFail ELSE At(toks[i], SkipWs(toks, i + 1))

\* json.loads(text): one JSON value with whitespace around it, else JSONDecodeError
JsonLoads(toks) ==
  LET Whole(v) ==
        IF v.ok /\ SkipWs(toks, v.next) = Len(toks) + 1 THEN Returned(v.val)
        ELSE Raised("JSONDecodeError", <<"E","x","p","e","c","t","i","n","g"," ","v","a","l","u","e">>)
  IN Whole(ParseValue(toks, SkipWs(toks, 1)))

(***************************************************************************)
(* _extract_json_from_response                                             *)
(***************************************************************************)
\* the lexeme where the group of ```(?:json)?\s*(\{.*?\})\s*``` starts for the fence at i
FenceGroupStart(toks, i) ==
  SkipWs(toks, IF i + 1 <= Len(toks) /\ toks[i + 1] = Word(<<"j","s","o","n">>) THEN i + 2 ELSE i + 1)

\* the pattern matches from the fence at i with its group ending at the brace q
FenceMatchAt(toks, i, q) ==
  LET Group(p, after) ==
        /\ p <= Len(toks) /\ toks[p] = LBrace
        /\ q > p /\ toks[q] = RBrace
        /\ after <= Len(toks) /\ toks[after] = Fence
  IN toks[i] = Fence /\ Group(FenceGroupStart(toks, i), SkipWs(toks, q + 1))

\* re.search with the lazy group: the leftmost fence that matches and the
\* nearest closing brace that completes the match, as <<first, last>> lexeme
\* of the group; << >> for no match
FenceSearch(toks) ==
  LET Nearest(i0, ends) == <<FenceGroupStart(toks, i0), CHOOSE q \in ends : \A r \in ends : q <= r>>
      From(i0) == Nearest(i0, {q \in 1..Len(toks) : FenceMatchAt(toks, i0, q)})
      Leftmost(starts) ==
        IF starts = {} THEN << >> ELSE From(CHOOSE i \in starts : \A j \in starts : i <= j)
  IN Leftmost({i \in 1..Len(toks) : \E q \in 1..Len(toks) : FenceMatchAt(toks, i, q)})

\* response.find('{'): 0 when there is none
FindFirst(toks, tk) ==
  LET Least(pos) == IF pos = {} THEN 0 ELSE CHOOSE i \in pos : \A j \in pos : i <= j
  IN Least({i \in 1..Len(toks) : toks[i] = tk})

\* response.rfind('}'): 0 when there is none
FindLast(toks, tk) ==
  LET Greatest(pos) == IF pos = {} THEN 0 ELSE CHOOSE i \in pos : \A j \in pos : i >= j
  IN Greatest({i \in 1..Len(toks) : toks[i] = tk})

PreviewLen == 200

\* response[:200]
Preview(toks) == LET Cut(chars) == SubSeq(chars, 1, Min(PreviewLen, Len(chars))) IN Cut(Render(toks))

RecoveryPrefix == <<"C","o","u","l","d"," ","n","o","t"," ","e","x","t","r","a","c","t"," ","v","a","l","i","d"," ","J","S","O","N"," ","f","r","o","m"," ","r","e","s","p","o","n","s","e",":"," ">>

\* ExtractJsonFromResponse trying the braces before the direct parse
ExtractJsonFromResponse_bracesFirst(response) ==
  LET Fenced(fm) == IF fm = << >> THEN Raised("NoMatch", EmptyStr) ELSE JsonLoads(SubSeq(response, fm[1], fm[2]))
      Braces(start, end) ==
        IF start # 0 /\ end # 0 THEN JsonLoads(Slice(response, start, end)) ELSE Raised("NoMatch", EmptyStr)
      Third(parsed) ==
        IF parsed.ok THEN Returned(parsed.val)
        ELSE Raised("ValueError", RecoveryPrefix \o Preview(response))
      Second(parsed) ==
        IF parsed.ok THEN Returned(parsed.val)
        ELSE Third(Fenced(FenceSearch(response)))
      First(parsed) ==
        IF parsed.ok THEN Returned(parsed.val)
        ELSE Second(JsonLoads(response))
  IN First(Braces(FindFirst(response, LBrace), FindLast(response, RBrace)))

ExtractJsonFromResponse(response) ==
  LET Fenced(fm) == IF fm = << >> THEN Raised("NoMatch", EmptyStr) ELSE JsonLoads(SubSeq(response, fm[1], fm[2]))
      Braces(start, end) ==
        IF start # 0 /\ end # 0 THEN JsonLoads(Slice(response, start, end)) ELSE Raised("NoMatch", EmptyStr)
      Third(parsed) ==
        IF parsed.ok THEN Returned(parsed.val)
        ELSE Raised("ValueError", RecoveryPrefix \o Preview(response))
      Second(parsed) ==
        IF parsed.ok THEN Returned(parsed.val)
        ELSE Third(Braces(FindFirst(response, LBrace), FindLast(response, RBrace)))
      First(parsed) ==
        IF parsed.ok THEN Returned(parsed.val)
        ELSE Second(Fenced(FenceSearch(response)))
  IN First(JsonLoads(response))

(***************************************************************************)
(* _validate_and_fix                                                       *)
(***************************************************************************)
\* for field in required_fields: if field not in data: data[field] = None
FillMissing(d) == [k \in DOMAIN d \cup RequiredSet |-> IF k \in DOMAIN d THEN d[k] ELSE PyNone]

\* DropExtra with the filter left out
DropExtra_keep(d) == d

\* {k: v for k, v in data.items() if k in required_fields}
DropExtra(d) == [k \in DOMAIN d \cap RequiredSet |-> d[k]]

\* what the first two steps raise on a value that is not a dict
NonDictError(v) ==
  CASE v.t = "list" ->
         IF \A i \in 1..Len(required_fields) : \E j \in 1..Len(v.items) : v.items[j] = PyStr(required_fields[i])
           THEN Exc("AttributeError", <<"'","l","i","s","t","'"," ","o","b","j","e","c","t"," ","h","a","s"," ","n","o"," ","a","t","t","r","i","b","u","t","e"," ","'","i","t","e","m","s","'">>)
         ELSE Exc("TypeError", <<"l","i","s","t"," ","i","n","d","i","c","e","s"," ","m","u","s","t"," ","b","e"," ","i","n","t","e","g","e","r","s"," ","o","r"," ","s","l","i","c","e","s",","," ","n","o","t"," ","s","t","r">>)
    [] v.t = "str" ->
         IF \A i \in 1..Len(required_fields) : Contains(v.s, required_fields[i])
           THEN Exc("AttributeError", <<"'","s","t","r","'"," ","o","b","j","e","c","t"," ","h","a","s"," ","n","o"," ","a","t","t","r","i","b","u","t","e"," ","'","i","t","e","m","s","'">>)
         ELSE Exc("TypeError", <<"'","s","t","r","'"," ","o","b","j","e","c","t"," ","d","o","e","s"," ","n","o","t"," ","s","u","p","p","o","r","t"," ","i","t","e","m"," ","a","s","s","i","g","n","m","e","n","t">>)
    [] v.t = "none" -> Exc("TypeError", <<"a","r","g","u","m","e","n","t"," ","o","f"," ","t","y","p","e"," ","'","N","o","n","e","T","y","p","e","'"," ","i","s"," ","n","o","t"," ","i","t","e","r","a","b","l","e">>)
    [] v.t = "bool" -> Exc("TypeError", <<"a","r","g","u","m","e","n","t"," ","o","f"," ","t","y","p","e"," ","'","b","o","o","l","'"," ","i","s"," ","n","o","t"," ","i","t","e","r","a","b","l","e">>)
    [] v.t = "int" -> Exc("TypeError", <<"a","r","g","u","m","e","n","t"," ","o","f"," ","t","y","p","e"," ","'","i","n","t","'"," ","i","s"," ","n","o","t"," ","i","t","e","r","a","b","l","e">>)
    [] v.t = "float" -> Exc("TypeError", <<"a","r","g","u","m","e","n","t"," ","o","f"," ","t","y","p","e"," ","'","f","l","o","a","t","'"," ","i","s"," ","n","o","t"," ","i","t","e","r","a","b","l","e">>)

\* quantity must be number or null: ValueError and TypeError give None,
\* any other exception of float() leaves the function
FixQuantity(d) ==
  LET Set(f) ==
        IF f.ok THEN Returned(DictSet(d, K_quantity, f.val))
        ELSE IF f.exc.cls \in {"ValueError", "TypeError"} THEN Returned(DictSet(d, K_quantity, PyNone))
        ELSE f
  IN IF d[K_quantity] = PyNone THEN Returned(d) ELSE Set(FloatOf(d[K_quantity]))

UrgencyEnum == {PyStr(Low), PyStr(Medium), PyStr(High)}

\* FixUrgency with the repair left out
FixUrgency_skip(d, original_text, now) == d

\* FixUrgency inferring also over a valid urgency
FixUrgency_always(d, original_text, now) ==
  DictSet(d, K_urgency, PyStr(InferUrgency(original_text, d[K_deadline], now)))

\* urgency must be valid enum
FixUrgency(d, original_text, now) ==
  IF d[K_urgency] \notin UrgencyEnum
    THEN DictSet(d, K_urgency, PyStr(InferUrgency(original_text, d[K_deadline], now)))
  ELSE d

\* FixDeadline consulting the parser for every deadline string
FixDeadline_always(d, original_text, now) ==
  LET Set(parsed_date) ==
        IF parsed_date.ok THEN Returned(DictSet(d, K_deadline, parsed_date.val)) ELSE parsed_date
  IN IF ~Truthy(d[K_deadline]) THEN Returned(d)
     ELSE IF d[K_deadline].t # "str" THEN Returned(DictSet(d, K_deadline, PyNone))
     ELSE Set(ParseRelativeDate(original_text, now))

\* deadline must be valid ISO date or null
FixDeadline(d, original_text, now) ==
  LET Set(parsed_date) ==
        IF parsed_date.ok THEN Returned(DictSet(d, K_deadline, parsed_date.val)) ELSE parsed_date
  IN IF ~Truthy(d[K_deadline]) THEN Returned(d)
     ELSE IF d[K_deadline].t # "str" THEN Returned(DictSet(d, K_deadline, PyNone))
     ELSE IF FromIsoFormat(d[K_deadline]).ok THEN Returned(d)
     ELSE Set(ParseRelativeDate(original_text, now))

string_fields == << K_material_name, K_unit, K_project_name, K_location >>

\* FixString without the cleaning of empty strings and 'null'
FixString_noclean(v) == IF v # PyNone /\ v.t # "str" THEN PyStr(StrOf(v)) ELSE v

\* string fields should be strings or null; empty strings and 'null' become None
FixString(v) ==
  LET Clean(sv) == IF sv = PyStr(EmptyStr) \/ sv = PyStr(<<"n","u","l","l">>) THEN PyNone ELSE sv
  IN Clean(IF v # PyNone /\ v.t # "str" THEN PyStr(StrOf(v)) ELSE v)

FixStrings(d) ==
  [k \in DOMAIN d |-> IF \E i \in 1..Len(string_fields) : string_fields[i] = k THEN FixString(d[k]) ELSE d[k]]

ValidateAndFix(data, original_text, now) ==
  LET Strings(dl) == IF ~dl.ok THEN dl ELSE Returned(PyDict(FixStrings(dl.val)))
      UrgencyAndDeadline(q) ==
        IF ~q.ok THEN q
        ELSE Strings(FixDeadline(FixUrgency(q.val, original_text, now), original_text, now))
  IN IF data.t # "dict" THEN [ok |-> FALSE, exc |-> NonDictError(data)]
     ELSE UrgencyAndDeadline(FixQuantity(DropExtra(FillMissing(data.d))))

(***************************************************************************)
(* extract: one attempt, and the fallback record                           *)
(***************************************************************************)
\* message.content of a completion: None or a text
NoContent == [t |-> "none"]

Content(toks) == [t |-> "text", toks |-> toks]

\* not raw_output or not raw_output.strip()
IsEmptyBody(body) == body.t = "none" \/ StripText(body.toks) = << >>

EmptyResponseError == Exc("ValueError", <<"E","m","p","t","y"," ","r","e","s","p","o","n","s","e"," ","f","r","o","m"," ","m","o","d","e","l"," ","a","f","t","e","r"," ","a","l","l"," ","r","e","t","r","i","e","s">>)

\* Fallback without the error field
Fallback_noerror(exc) ==
  (K_material_name :> PyNone) @@ (K_quantity :> PyNone) @@ (K_unit :> PyNone)
    @@ (K_project_name :> PyNone) @@ (K_location :> PyNone) @@ (K_urgency :> PyStr(Low))
    @@ (K_deadline :> PyNone)

\* Fallback with one message for every failure
Fallback_generic(exc) ==
  (K_material_name :> PyNone) @@ (K_quantity :> PyNone) @@ (K_unit :> PyNone)
    @@ (K_project_name :> PyNone) @@ (K_location :> PyNone) @@ (K_urgency :> PyStr(Low))
    @@ (K_deadline :> PyNone) @@ (K_error :> PyStr(<<"E","x","t","r","a","c","t","i","o","n"," ","f","a","i","l","e","d">>))

\* the final fallback: a minimal valid structure carrying str(e)
Fallback(exc) ==
  (K_material_name :> PyNone) @@ (K_quantity :> PyNone) @@ (K_unit :> PyNone)
    @@ (K_project_name :> PyNone) @@ (K_location :> PyNone) @@ (K_urgency :> PyStr(Low))
    @@ (K_deadline :> PyNone) @@ (K_error :> PyStr(exc.msg))

\* the body of the try block once the model has answered with body:
\* cls names how the attempt ended, "ok" with the record in val, "empty" for
\* the retry of an empty body, else the exception in exc
ProcessBody(body, text, now, attempt, max_retries) ==
  LET Validated(fixed) ==
        IF ~fixed.ok THEN [cls |-> "validation", retry |-> FALSE, exc |-> fixed.exc]
        ELSE [cls |-> "ok", retry |-> FALSE, val |-> fixed.val]
      Recovered(data) ==
        IF ~data.ok THEN [cls |-> "recovery", retry |-> FALSE, exc |-> data.exc]
        ELSE Validated(ValidateAndFix(data.val, text, now))
  IN IF IsEmptyBody(body)
       THEN IF attempt < max_retries THEN [cls |-> "empty", retry |-> TRUE]
            ELSE [cls |-> "empty", retry |-> FALSE, exc |-> EmptyResponseError]
     ELSE Recovered(ExtractJsonFromResponse(StripText(body.toks)))

(***************************************************************************)
(* Inputs                                                                  *)
(***************************************************************************)
\* the clock: what datetime.now() returns during a run
Today == DateTime(2026, 11, 2, 43200)

Nows == {Today, DateTime(2024, 2, 27, 0)}

T_urgent == <<"N","e","e","d"," ","3","5","0"," ","b","a","g","s"," ","o","f"," ","c","e","m","e","n","t"," ","U","R","G","E","N","T","L","Y"," ","i","n"," ","7"," ","d","a","y","s">>

T_bricks == <<"G","e","t"," ","s","o","m","e"," ","b","r","i","c","k","s">>

\* original texts
Texts ==
  { T_urgent, T_bricks,
    <<"O","r","d","e","r"," ","1","2"," ","t","r","u","c","k","l","o","a","d","s"," ","o","f"," ","r","i","v","e","r"," ","s","a","n","d"," ","b","y"," ","A","p","r","i","l"," ","e","n","d">>,
    <<"s","a","n","d"," ","r","e","q","u","i","r","e","d"," ","i","n"," ","9","9","9","9","9","9","9","9","9","9","9"," ","d","a","y","s">>,
    <<"p","a","i","n","t"," ","w","h","e","n"," ","p","o","s","s","i","b","l","e"," ","b","y"," ","f","o","o"," ","e","n","d">> }

\* an object literal for the members ms, each a key and the lexemes of its value
RECURSIVE MemberToks(_)
MemberToks(ms) ==
  IF ms = << >> THEN << >>
  ELSE <<StrLit(ms[1][1]), Colon, Ws(<<" ">>)>> \o ms[1][2]
         \o (IF Len(ms) = 1 THEN << >> ELSE <<Comma, Ws(<<" ">>)>> \o MemberToks(Tail(ms)))

ObjToks(ms) == <<LBrace>> \o MemberToks(ms) \o <<RBrace>>

Null == <<Word(<<"n","u","l","l">>)>>

\* an already conformant record
B_ok ==
  ObjToks(<< <<K_material_name, <<StrLit(<<"b","r","i","c","k","s">>)>> >>, <<K_quantity, Null>>, <<K_unit, Null>>,
             <<K_project_name, Null>>, <<K_location, Null>>, <<K_urgency, <<StrLit(Low)>> >>,
             <<K_deadline, Null>> >>)

\* a fenced object after a sentence, with fields to repair and a key named error
B_fenced ==
  <<Word(<<"H","e","r","e">>), Ws(<<" ">>), Word(<<"i","t">>), Ws(<<" ">>), Word(<<"i","s">>), Colon, Ws(<<"\n">>),
    Fence, Word(<<"j","s","o","n">>), Ws(<<"\n">>)>>
  \o ObjToks(<< <<K_material_name, <<StrLit(<<"c","e","m","e","n","t">>)>> >>, <<K_quantity, <<NumLit(<<"3","5","0">>)>> >>,
                <<K_unit, <<StrLit(<<"b","a","g","s">>)>> >>, <<K_urgency, <<StrLit(<<"U","R","G","E","N","T","!">>)>> >>,
                <<K_deadline, <<StrLit(<<"M","a","r","c","h"," ","1","5">>)>> >>, <<K_error, <<StrLit(<<"n","o","n","e">>)>> >> >>)
  \o <<Ws(<<"\n">>), Fence>>

\* text without JSON
B_junk == <<Word(<<"S","o","r","r","y">>), Comma, Ws(<<" ">>), Word(<<"n","o">>), Ws(<<" ">>), Word(<<"o","r","d","e","r">>), Ws(<<" ">>), LBrace>>

\* JSON that is not an object
B_list == <<LBrack, NumLit(<<"1">>), RBrack>>

\* a list holding one object: JSON as a whole, and JSON of another value
\* from its first to its last brace
B_listed == <<LBrack>> \o ObjToks(<< <<K_unit, <<StrLit(<<"b","a","g","s">>)>> >> >>) \o <<RBrack>>

\* an object whose quantity is an integer of 401 digits
B_huge == ObjToks(<< <<K_quantity, <<NumLit(<<"1">> \o Zeros(400))>> >> >>)

\* what the model call returns as message.content
Bodies ==
  { NoContent, Content(<< >>), Content(<<Ws(<<"\n", " ">>)>>),
    Content(B_ok), Content(<<Ws(<<"\n">>)>> \o B_fenced \o <<Ws(<<" ">>)>>),
    Content(B_junk), Content(B_huge) }

\* messages of the exceptions the model call raises
RaiseMessages == {EmptyStr, <<"C","o","n","n","e","c","t","i","o","n"," ","e","r","r","o","r",".">>}

\* the retry budget extract is given by default
DefaultMaxRetries == 2

\* the largest max_retries a caller passes
MaxRetriesArg == 2

\* the longest batch
MaxBatch == 2

BatchTexts == {T_urgent, T_bricks}

RECURSIVE SeqsUpTo(_, _)
SeqsUpTo(S, n) == IF n = 0 THEN {<< >>} ELSE SeqsUpTo(S, n - 1) \cup {Append(q, x) : q \in SeqsUpTo(S, n - 1), x \in S}

(***************************************************************************)
(* State                                                                   *)
(***************************************************************************)
VARIABLES
  now,          \* the clock
  pc,           \* where the caller is: idle, attempt (top of the retry loop), call (after the delay), returned, batch_returned
  mode,         \* what the caller called: none, single (extract), batch (batch_extract)
  text,         \* extract: the input text
  max_retries,  \* extract: the retry budget
  attempt,      \* extract: the attempt index of the loop
  events,       \* extract: the delays and model calls so far, in order
  last,         \* extract: how the latest attempt ended
  reply,        \* extract: what the model call of the latest attempt did
  ret,          \* extract: the value returned
  texts,        \* batch_extract: the input texts
  item,         \* batch_extract: the 1-based index of the text in work
  results,      \* batch_extract: the list results
  writes,       \* batch_extract: every content written to output_file, in order
  returns,      \* batch_extract: what each extract call was given and returned
  bret,         \* batch_extract: the list returned
  vdata,        \* _validate_and_fix: the structure given
  vtext,        \* _validate_and_fix: the original text given
  vout,         \* _validate_and_fix: its outcome
  vagain,       \* _validate_and_fix: its outcome when given the record it returned
  rresp,        \* _extract_json_from_response: the text given
  rout          \* _extract_json_from_response: its outcome

extractVars == <<text, max_retries, attempt, events, last, reply, ret>>

batchVars == <<texts, item, results, writes, returns, bret>>

validatorVars == <<vdata, vtext, vout, vagain>>

recoveryVars == <<rresp, rout>>

vars == <<now, pc, mode, extractVars, batchVars, validatorVars, recoveryVars>>

\* the outcome of a function that has not run
NotRun == [ok |-> FALSE, exc |-> Exc("NotRun", EmptyStr)]

\* before the first model call of an extract call
NoReply == [kind |-> "none"]

\* the model call raised an exception with message msg
RaiseReply(msg) == [kind |-> "raise", msg |-> msg]

\* the model call returned a completion whose content is body
BodyReply(body) == [kind |-> "body", body |-> body]

Idle ==
  /\ pc = "idle" /\ mode = "none"
  /\ text = EmptyStr /\ max_retries = 0 /\ attempt = 0 /\ events = << >> /\ last = "none" /\ reply = NoReply /\ ret = PyNone
  /\ texts = << >> /\ item = 0 /\ results = << >> /\ writes = << >> /\ returns = << >> /\ bret = << >>

Init ==
  /\ now = Today
  /\ Idle
  /\ vdata = PyNone /\ vtext = EmptyStr /\ vout = NotRun /\ vagain = NotRun
  /\ rresp = << >> /\ rout = NotRun

(***************************************************************************)
(* extract                                                                 *)
(***************************************************************************)
\* SleepEvent with a delay that does not grow
SleepEvent_flat(k) == [e |-> "sleep", attempt |-> k, secs |-> 2, end |-> "slept"]

\* time.sleep(attempt * 2)
SleepEvent(k) == [e |-> "sleep", attempt |-> k, secs |-> k * 2, end |-> "slept"]

\* a model call of attempt k and how that attempt ended
CallEvent(k, end) == [e |-> "call", attempt |-> k, secs |-> 0, end |-> end]

\* for attempt in range(max_retries + 1): the first iteration, or the end of
\* the function when the range is empty
EnterExtract(t, mr) ==
  /\ text' = t
  /\ max_retries' = mr
  /\ attempt' = 0
  /\ events' = << >>
  /\ last' = "none"
  /\ reply' = NoReply
  /\ IF mr + 1 <= 0 THEN pc' = "returned" /\ ret' = PyNone
     ELSE pc' = "attempt" /\ ret' = PyNone

CallExtract(t, mr) ==
  /\ pc = "idle"
  /\ mode' = "single"
  /\ EnterExtract(t, mr)
  /\ UNCHANGED <<now, batchVars, validatorVars, recoveryVars>>

\* if attempt > 0: time.sleep(attempt * 2)
Backoff ==
  /\ pc = "attempt" /\ attempt > 0
  /\ events' = Append(events, SleepEvent(attempt))
  /\ pc' = "call"
  /\ UNCHANGED <<now, mode, text, max_retries, attempt, last, reply, ret, batchVars, validatorVars, recoveryVars>>

ReadyToCall == (pc = "attempt" /\ attempt = 0) \/ pc = "call"

\* the return of extract, noted when batch_extract made the call
NoteReturn(r) ==
  returns' = IF mode = "batch" THEN Append(returns, [text |-> text, ret |-> r]) ELSE returns

\* continue: the next iteration of the loop
NextAttempt ==
  /\ attempt' = attempt + 1
  /\ pc' = "attempt"
  /\ UNCHANGED <<ret, returns>>

\* Except giving up one attempt early
Except_early(exc) ==
  IF attempt >= max_retries - 1
    THEN /\ ret' = PyDict(Fallback(exc))
         /\ pc' = "returned"
         /\ NoteReturn(PyDict(Fallback(exc)))
         /\ UNCHANGED attempt
  ELSE NextAttempt

\* except Exception as e: the fallback on the last attempt, else retry
Except(exc) ==
  IF attempt = max_retries
    THEN /\ ret' = PyDict(Fallback(exc))
         /\ pc' = "returned"
         /\ NoteReturn(PyDict(Fallback(exc)))
         /\ UNCHANGED attempt
  ELSE NextAttempt

\* the model call raises
ModelRaises(msg) ==
  /\ ReadyToCall
  /\ events' = Append(events, CallEvent(attempt, "raised"))
  /\ last' = "raised"
  /\ reply' = RaiseReply(msg)
  /\ Except(Exc("Exception", msg))
  /\ UNCHANGED <<now, mode, text, max_retries, texts, item, results, writes, bret, validatorVars, recoveryVars>>

\* the model call returns a completion whose content is body
ModelResponds(body) ==
  LET Finish(o) ==
        /\ events' = Append(events, CallEvent(attempt, o.cls))
        /\ last' = o.cls
        /\ reply' = BodyReply(body)
        /\ IF o.cls = "ok"
             THEN ret' = o.val /\ pc' = "returned" /\ NoteReturn(o.val) /\ UNCHANGED attempt
           ELSE IF o.retry THEN NextAttempt
           ELSE Except(o.exc)
  IN /\ ReadyToCall
     /\ Finish(ProcessBody(body, text, now, attempt, max_retries))
     /\ UNCHANGED <<now, mode, text, max_retries, texts, item, results, writes, bret, validatorVars, recoveryVars>>

(***************************************************************************)
(* batch_extract                                                           *)
(***************************************************************************)
\* Decorated without the input text
Decorated_plain(result, t) == result

\* result['input_text'] = text
Decorated(result, t) == PyDict(DictSet(result.d, K_input_text, PyStr(t)))

CallBatchExtract(ts) ==
  /\ pc = "idle"
  /\ mode' = "batch"
  /\ texts' = ts
  /\ results' = << >>
  /\ IF ts = << >>
       THEN /\ pc' = "batch_returned" /\ item' = 0 /\ bret' = << >>
            /\ UNCHANGED extractVars
     ELSE /\ item' = 1 /\ bret' = bret
          /\ EnterExtract(ts[1], DefaultMaxRetries)
  /\ UNCHANGED <<now, writes, returns, validatorVars, recoveryVars>>

\* result['input_text'] = text; results.append(result); json.dump(results, f);
\* then the next text, or return results
StoreResult ==
  LET Store(stored) ==
        /\ results' = stored
        /\ writes' = Append(writes, stored)
        /\ IF item < Len(texts)
             THEN /\ item' = item + 1
                  /\ EnterExtract(texts[item + 1], DefaultMaxRetries)
                  /\ UNCHANGED bret
           ELSE /\ pc' = "batch_returned"
                /\ bret' = stored
                /\ UNCHANGED <<item, extractVars>>
        /\ UNCHANGED <<texts, returns>>
  IN /\ pc = "returned" /\ mode = "batch"
     /\ IF ret.t # "dict"
          THEN pc' = "batch_raised" /\ UNCHANGED <<extractVars, texts, item, results, writes, returns, bret>>
        ELSE Store(Append(results, Decorated(ret, text)))
     /\ UNCHANGED <<now, mode, validatorVars, recoveryVars>>

Next ==
  \/ \E t \in Texts : \E mr \in (-1)..MaxRetriesArg : CallExtract(t, mr)
  \/ Backoff
  \/ \E msg \in RaiseMessages : ModelRaises(msg)
  \/ \E body \in Bodies : ModelResponds(body)
  \/ \E ts \in SeqsUpTo(BatchTexts, MaxBatch) : CallBatchExtract(ts)
  \/ StoreResult

Spec == Init /\ [][Next]_vars

(***************************************************************************)
(* _validate_and_fix on its own                                            *)
(***************************************************************************)
\* a key the structure does not have
Missing == [t |-> "missing"]

WithField(d, k, v) == IF v = Missing THEN d ELSE DictSet(d, k, v)

\* what the model supplies as deadline
Deadlines ==
  { Missing, PyNone, PyStr(EmptyStr), PyStr(<<"2","0","2","6","-","1","1","-","0","5">>), PyStr(<<"2","0","2","5","-","0","3","-","1","5","T","1","0",":","3","0",":","0","0">>),
    PyStr(<<"2","0","2","6","-","1","1","-","0","4">>), PyStr(<<"2","0","2","6","-","1","1","-","0","9">>), PyStr(<<"2","0","2","6","-","1","2","-","0","2">>),
    PyStr(<<"2","0","2","4","-","0","3","-","0","5">>), PyStr(<<"2","0","2","4","-","0","3","-","2","8">>),
    PyStr(<<"M","a","r","c","h"," ","1","5">>), PyStr(<<"2","0","2","6","-","0","2","-","3","0">>), PyInt(5, 0), PyInt(0, 0), PyFloat(15, -1),
    PyBool(TRUE), PyBool(FALSE), PyList(<< >>), PyList(<<PyInt(1, 0)>>),
    PyDict(EmptyDict), PyDict(DictSet(EmptyDict, <<"d","a","y">>, PyInt(15, 0))) }

\* what the model supplies as urgency
Urgencies ==
  { Missing, PyNone, PyStr(Low), PyStr(Medium), PyStr(High), PyStr(<<"H","I","G","H">>), PyStr(<<"U","R","G","E","N","T","!">>), PyStr(EmptyStr),
    PyInt(1, 0), PyBool(TRUE), PyList(<<PyStr(Low)>>), PyDict(DictSet(EmptyDict, <<"l","e","v","e","l">>, PyStr(High))) }

\* what the model supplies for the other fields
OtherFields ==
  { EmptyDict,
    (K_material_name :> PyStr(<<"c","e","m","e","n","t">>)) @@ (K_quantity :> PyStr(<<" ","3","5","0"," ">>)) @@ (K_unit :> PyInt(5, 0))
      @@ (K_project_name :> PyStr(<<"n","u","l","l">>)) @@ (K_location :> PyStr(EmptyStr)),
    (K_material_name :> PyList(<<PyStr(<<"s","a","n","d">>), PyFloat(25, -1)>>)) @@ (K_quantity :> PyStr(<<"m","a","n","y">>))
      @@ (K_unit :> PyBool(FALSE)) @@ (K_error :> PyStr(<<"n","o","n","e">>)) @@ (K_input_text :> PyStr(<<"t","e","x","t">>)),
    (K_quantity :> PyInt(1, 400)) }

\* a value for each key a structure may carry: the seven fields and three more
JunkRecord ==
  (K_material_name :> PyStr(<<"b","r","i","c","k","s">>)) @@ (K_quantity :> PyInt(12, 0)) @@ (K_unit :> PyStr(<<"p","a","l","l","e","t","s">>))
    @@ (K_project_name :> PyNone) @@ (K_location :> PyStr(<<"P","u","n","e">>)) @@ (K_urgency :> PyStr(Medium))
    @@ (K_deadline :> PyStr(<<"2","0","2","6","-","1","2","-","0","1">>)) @@ (K_error :> PyStr(<<"n","o","n","e">>))
    @@ (K_input_text :> PyStr(<<"t","e","x","t">>)) @@ (<<"f","o","o">> :> PyList(<< >>))

\* every deadline with every urgency
FieldCases ==
  {PyDict(WithField(WithField(o, K_deadline, dl), K_urgency, u)) : o \in OtherFields, dl \in Deadlines, u \in Urgencies}

\* every subset of the keys of JunkRecord
KeyCases == {PyDict([k \in ks |-> JunkRecord[k]]) : ks \in SUBSET DOMAIN JunkRecord}

\* records with the seven keys, a valid urgency, a null or ISO deadline, a
\* null or numeric quantity and null or non-empty strings: the seven fields
\* of the fallback, a filled record, and one whose unit is the string null
ConformantRecords ==
  { PyDict([k \in RequiredSet |-> Fallback(EmptyResponseError)[k]]),
    PyDict((K_material_name :> PyStr(<<"b","r","i","c","k","s">>)) @@ (K_quantity :> PyFloat(125, -1)) @@ (K_unit :> PyStr(<<"p","a","l","l","e","t","s">>))
             @@ (K_project_name :> PyNone) @@ (K_location :> PyStr(<<"P","u","n","e">>)) @@ (K_urgency :> PyStr(Low))
             @@ (K_deadline :> PyStr(<<"2","0","2","6","-","1","1","-","0","4">>))),
    PyDict((K_material_name :> PyStr(<<"b","r","i","c","k","s">>)) @@ (K_quantity :> PyNone) @@ (K_unit :> PyStr(<<"n","u","l","l">>))
             @@ (K_project_name :> PyNone) @@ (K_location :> PyNone) @@ (K_urgency :> PyStr(High))
             @@ (K_deadline :> PyNone)) }

\* the structures given to the validator, and values that are not a dict
Structures == FieldCases \cup KeyCases \cup ConformantRecords \cup {PyNone, PyList(<<PyInt(1, 0)>>)}

\* the original texts given to the validator
ValidatorTexts ==
  Texts \cup
    { <<"S","e","n","d"," ","2","0"," ","p","i","p","e","s"," ","a","s","a","p">>, <<"T","i","l","e","s"," ","e","v","e","n","t","u","a","l","l","y",","," ","n","o","t","h","i","n","g"," ","u","r","g","e","n","t">>, <<"T","i","l","e","s"," ","e","v","e","n","t","u","a","l","l","y">>,
      <<"S","t","e","e","l"," ","i","n"," ","1","0"," ","d","a","y","s"," ","o","r"," ","b","y"," ","M","a","r","c","h"," ","e","n","d">>, <<"G","l","a","s","s"," ","B","Y"," ","D","e","c","e","m","b","e","r"," ","E","N","D">>, <<"W","o","o","d"," ","b","y"," ","f","e","b","r","u","a","r","y"," ","e","n","d">>,
      <<"G","r","a","v","e","l"," ","I","N"," "," ","3"," ","D","A","Y">> }

InitValidator ==
  /\ now \in Nows
  /\ Idle
  /\ vdata \in Structures
  /\ vtext \in (IF vdata \in KeyCases THEN {T_bricks} ELSE ValidatorTexts)
  /\ vout = NotRun /\ vagain = NotRun
  /\ rresp = << >> /\ rout = NotRun

Validate ==
  /\ vout = NotRun
  /\ vout' = ValidateAndFix(vdata, vtext, now)
  /\ UNCHANGED <<now, pc, mode, extractVars, batchVars, vdata, vtext, vagain, recoveryVars>>

\* the validator given the record it returned, with the same text
Revalidate ==
  /\ vout # NotRun /\ vout.ok /\ vagain = NotRun
  /\ vagain' = ValidateAndFix(vout.val, vtext, now)
  /\ UNCHANGED <<now, pc, mode, extractVars, batchVars, vdata, vtext, vout, recoveryVars>>

NextValidator == Validate \/ Revalidate

SpecValidator == InitValidator /\ [][NextValidator]_vars

(***************************************************************************)
(* _extract_json_from_response on its own                                  *)
(***************************************************************************)
\* what precedes the JSON in a response
Prefixes ==
  { << >>, <<Word(<<"H","e","r","e">>), Ws(<<" ">>), Word(<<"i","t">>), Ws(<<" ">>), Word(<<"i","s">>), Colon, Ws(<<"\n">>)>>,
    <<Fence, Word(<<"j","s","o","n">>), Ws(<<"\n">>)>>, <<Word(<<"R","e","s","u","l","t">>), Ws(<<" ">>), Fence, Ws(<<"\n">>)>>,
    <<LBrace, Ws(<<" ">>)>>, <<Word([i \in 1..250 |-> "x"]), Ws(<<" ">>)>> }

\* the JSON, or what stands in its place
Cores ==
  { B_ok, B_huge, B_list, B_listed, Null, << >>,
    <<NumLit(<<"5">>)>>, <<StrLit(<<"a","b","c">>)>>, <<Word(<<"t","r","u","e">>)>>,
    ObjToks(<< <<K_material_name, <<StrLit(<<"s","a","n","d">>)>> >>, <<K_quantity, <<NumLit(<<"2",".","5","0">>)>> >> >>),
    ObjToks(<< <<K_location, ObjToks(<< <<<<"c","i","t","y">>, <<StrLit(<<"P","u","n","e">>)>> >> >>)>>,
               <<K_unit, <<LBrack, Word(<<"f","a","l","s","e">>), Comma, NumLit(<<"-","3">>), RBrack>> >> >>),
    <<LBrace, StrLit(K_unit), Colon>>,
    <<LBrace, StrLit(K_unit), Colon, Ws(<<" ">>), Word(<<"b","a","g","s">>), RBrace>> }

\* what follows it
Suffixes ==
  { << >>, <<Ws(<<"\n">>), Fence>>, <<Ws(<<" ">>), Word(<<"t","h","a","n","k","s">>)>>, <<RBrace>>,
    <<Ws(<<"\n">>), Fence, Ws(<<" ">>), Word(<<"d","o","n","e">>), Ws(<<" ">>), RBrace>> }

Responses == {p \o core \o sf : p \in Prefixes, core \in Cores, sf \in Suffixes}

InitRecovery ==
  /\ now \in Nows
  /\ Idle
  /\ vdata = PyNone /\ vtext = EmptyStr /\ vout = NotRun /\ vagain = NotRun
  /\ rresp \in Responses /\ rout = NotRun

Recover ==
  /\ rout = NotRun
  /\ rout' = ExtractJsonFromResponse(rresp)
  /\ UNCHANGED <<now, pc, mode, extractVars, batchVars, validatorVars, rresp>>

NextRecovery == Recover

SpecRecovery == InitRecovery /\ [][NextRecovery]_vars

(***************************************************************************)
(* Properties of extract and batch_extract (Spec)                          *)
(***************************************************************************)
IsCall(ev) == ev.e = "call"

\* the model calls of the extract call in progress, in order
Calls == SelectSeq(events, IsCall)

AllRaised == \A i \in 1..Len(Calls) : Calls[i].end = "raised"

\* C1: for max_retries >= 0, when the model call raises on every attempt,
\* extract makes exactly max_retries + 1 model calls and returns a record
\* with material_name, quantity, unit, project_name, location and deadline
\* null, urgency "low" and error a non-empty string, whatever the message of
\* the exceptions
FallbackGuarantee ==
  (pc = "returned" /\ max_retries >= 0 /\ AllRaised)
    => /\ Len(Calls) = max_retries + 1
       /\ ret.t = "dict"
       /\ RequiredSet \cup {K_error} \subseteq DOMAIN ret.d
       /\ \A k \in RequiredSet \ {K_urgency} : ret.d[k] = PyNone
       /\ ret.d[K_urgency] = PyStr(Low)
       /\ ret.d[K_error].t = "str" /\ ret.d[K_error].s # EmptyStr

\* every attempt raised an exception with an empty message: the record
\* returned has the empty string as error
FallbackWithEmptyError ==
  /\ pc = "returned" /\ max_retries = DefaultMaxRetries /\ Len(Calls) = max_retries + 1 /\ AllRaised
  /\ ret.t = "dict" /\ K_error \in DOMAIN ret.d /\ ret.d[K_error] = PyStr(EmptyStr)

\* C2: for every text, every integer max_retries and every sequence of
\* outcomes of the attempts, extract returns a record: never nothing
ExtractReturnsRecord == pc = "returned" => ret.t = "dict"

\* with max_retries = -1 the loop has no iteration: no model call is made
\* and extract returns None
ReturnsNone == pc = "returned" /\ mode = "single" /\ max_retries = -1 /\ events = << >> /\ ret = PyNone

\* C6: an attempt fails only because the model call raised, the body was
\* empty or whitespace-only, or recovery failed: when recovery returns a
\* value, validation does not raise and the attempt succeeds
AttemptFailureCauses == \A i \in 1..Len(Calls) : Calls[i].end \in {"ok", "raised", "empty", "recovery"}

\* recovery returned an object whose quantity float() cannot hold: the
\* validator raised, on every attempt, and the fallback reports it
ValidationRaisedOnObject ==
  /\ pc = "returned" /\ Len(Calls) = 3
  /\ \A i \in 1..3 : Calls[i].end = "validation"
  /\ ret.t = "dict" /\ K_error \in DOMAIN ret.d
  /\ ret.d[K_error] = PyStr(<<"i","n","t"," ","t","o","o"," ","l","a","r","g","e"," ","t","o"," ","c","o","n","v","e","r","t"," ","t","o"," ","f","l","o","a","t">>)

\* C8: the record extract returns has the key error if and only if every
\* one of the max_retries + 1 attempts failed; a record returned after a
\* successful attempt has no key error, even when the model's JSON had one
ErrorKeyIffExhausted ==
  (pc = "returned" /\ ret.t = "dict")
    => ((K_error \in DOMAIN ret.d)
          <=> (Len(Calls) = max_retries + 1 /\ \A i \in 1..Len(Calls) : Calls[i].end # "ok"))

\* a retry succeeded on the fenced response, whose JSON has a key error
SuccessDropsErrorKey ==
  /\ pc = "returned" /\ last = "ok" /\ Len(Calls) = 2 /\ Calls[1].end = "recovery"
  /\ ret.t = "dict" /\ ret.d[K_material_name] = PyStr(<<"c","e","m","e","n","t">>)
  /\ K_error \notin DOMAIN ret.d

\* C9: no delay precedes the model call of attempt 0; the model call of
\* attempt k >= 1 is preceded by exactly one delay, of k * 2, whichever way
\* the attempt before failed; no delay follows the last attempt
BackoffLaw ==
  /\ \A i \in 1..Len(Calls) : Calls[i].attempt = i - 1
  /\ \A i \in 1..Len(events) :
       IF events[i].e = "call"
         THEN IF events[i].attempt = 0 THEN i = 1
              ELSE /\ i > 2
                   /\ events[i - 1].e = "sleep" /\ events[i - 1].secs = events[i].attempt * 2
                   /\ events[i - 2].e = "call"
       ELSE /\ i > 1 /\ events[i - 1].e = "call" /\ events[i - 1].end # "ok"
            /\ events[i].attempt = events[i - 1].attempt + 1
            /\ events[i].attempt <= max_retries
  /\ pc = "returned" => (events = << >> \/ events[Len(events)].e = "call")

\* three attempts, failed by a raised call, an empty body and a recovery
\* failure, with delays 2 and 4 between them
BackoffAfterEachCause ==
  /\ pc = "returned" /\ Len(events) = 5
  /\ events[1].end = "raised" /\ events[2].secs = 2
  /\ events[3].end = "empty" /\ events[4].secs = 4
  /\ events[5].end = "recovery"

Undecorated(record) == [k \in DOMAIN record.d \ {K_input_text} |-> record.d[k]]

\* C10: after item i of a batch the output holds i + 1 records, record j
\* being what extract returned for texts[j] with input_text = texts[j]; each
\* write is the write before it plus one record; the returned list has the
\* length and order of the input; the first model call for texts[i+1] comes
\* after the result of texts[i] is final and written
BatchLaw ==
  mode = "batch" =>
    /\ \A i \in 1..Len(writes) :
         /\ Len(writes[i]) = i
         /\ i > 1 => SubSeq(writes[i], 1, i - 1) = writes[i - 1]
         /\ i <= Len(returns) /\ i <= Len(texts)
         /\ returns[i].text = texts[i]
         /\ writes[i][i].t = "dict"
         /\ K_input_text \in DOMAIN writes[i][i].d
         /\ writes[i][i].d[K_input_text] = PyStr(texts[i])
         /\ returns[i].ret.t = "dict"
         /\ Undecorated(writes[i][i]) = returns[i].ret.d
    /\ pc = "batch_returned" =>
         /\ Len(bret) = Len(texts)
         /\ Len(writes) = Len(texts)
         /\ texts # << >> => bret = writes[Len(writes)]
    /\ pc \in {"attempt", "call"} =>
         /\ Len(writes) = item - 1 /\ Len(returns) = item - 1
         /\ text = texts[item]
    /\ pc = "returned" => Len(writes) = item - 1 /\ Len(returns) = item /\ events # << >>

\* a batch of two texts is done, the first ended in the fallback after
\* all its retries, the second succeeded
BatchOfTwoDone ==
  /\ pc = "batch_returned" /\ texts = <<T_urgent, T_bricks>>
  /\ Len(writes) = 2 /\ Len(bret) = 2
  /\ K_error \in DOMAIN bret[1].d /\ K_error \notin DOMAIN bret[2].d

(***************************************************************************)
(* Properties of _validate_and_fix (SpecValidator)                         *)
(***************************************************************************)
ValidatorReturned == vout # NotRun /\ vout.ok

\* C3, with urgency excepted: for every structure given (any subset of the
\* seven keys, any extra keys, error and input_text among them) the record
\* returned has exactly the seven keys; a key that was missing, other than
\* urgency, has value null; every other key is dropped
SchemaClosure ==
  ValidatorReturned
    => /\ vout.val.t = "dict"
       /\ DOMAIN vout.val.d = RequiredSet
       /\ \A k \in RequiredSet \ {K_urgency} : k \notin DOMAIN vdata.d => vout.val.d[k] = PyNone

\* C3 as stated: every key that was missing has value null
SchemaClosureAsStated ==
  ValidatorReturned
    => /\ vout.val.t = "dict"
       /\ DOMAIN vout.val.d = RequiredSet
       /\ \A k \in RequiredSet : k \notin DOMAIN vdata.d => vout.val.d[k] = PyNone

\* a structure with the keys error, input_text and foo and without quantity
\* and deadline was validated
ClosedOverExtraAndMissing ==
  /\ ValidatorReturned
  /\ {K_error, K_input_text, <<"f","o","o">>} \subseteq DOMAIN vdata.d
  /\ K_quantity \notin DOMAIN vdata.d /\ K_deadline \notin DOMAIN vdata.d
  /\ vout.val.d[K_quantity] = PyNone

\* C4: whatever deadline the model supplied, the deadline of the record
\* returned is null or a string YYYY-MM-DD naming a valid calendar date
DeadlineValidity ==
  ValidatorReturned
    => \/ vout.val.d[K_deadline] = PyNone
       \/ vout.val.d[K_deadline].t = "str" /\ IsIsoDate(vout.val.d[K_deadline].s)

\* a date-time string was supplied and is returned as it came
DeadlineKeptWithTime ==
  /\ ValidatorReturned
  /\ vout.val.d[K_deadline] = PyStr(<<"2","0","2","5","-","0","3","-","1","5","T","1","0",":","3","0",":","0","0">>)

\* C5: for every structure and every text the urgency of the record
\* returned is "low", "medium" or "high", whatever the model supplied for
\* urgency and deadline
UrgencyTotality == ValidatorReturned => vout.val.d[K_urgency] \in UrgencyEnum

\* urgency came as a list and deadline as a number: the text decided
UrgencyFromText ==
  /\ ValidatorReturned
  /\ K_urgency \in DOMAIN vdata.d /\ vdata.d[K_urgency].t = "list"
  /\ K_deadline \in DOMAIN vdata.d /\ vdata.d[K_deadline].t = "int"
  /\ vtext = T_urgent /\ vout.val.d[K_urgency] = PyStr(High)

(***************************************************************************)
(* Properties of _extract_json_from_response (SpecRecovery)                *)
(***************************************************************************)
\* C7: for every response text, recovery either returns a JSON object or
\* raises an error whose message carries at most the first 200 characters
\* of the text; it returns neither null nor any other value
RecoveryOutcomes ==
  rout # NotRun
    => \/ rout.ok /\ rout.val.t = "dict"
       \/ /\ ~rout.ok /\ rout.exc.cls = "ValueError"
          /\ \E n \in 0..PreviewLen :
               /\ n <= Len(Render(rresp))
               /\ rout.exc.msg = RecoveryPrefix \o SubSeq(Render(rresp), 1, n)

\* the response null: recovery returned None
RecoveredNull == rresp = Null /\ rout # NotRun /\ rout.ok /\ rout.val = PyNone

\* what each strategy gives on the response on its own
DirectParse == JsonLoads(rresp)

FencedParse ==
  IF FenceSearch(rresp) = << >> THEN ParseFail
  ELSE JsonLoads(SubSeq(rresp, FenceSearch(rresp)[1], FenceSearch(rresp)[2]))

BracesParse ==
  IF FindFirst(rresp, LBrace) = 0 \/ FindLast(rresp, RBrace) = 0 THEN ParseFail
  ELSE JsonLoads(Slice(rresp, FindFirst(rresp, LBrace), FindLast(rresp, RBrace)))

\* C11: the direct parse, the fenced block and the text from the first to
\* the last brace are tried in that order and the first that parses gives
\* the result; a text that is JSON as a whole gives the direct parse even
\* when its braces hold JSON of another value
RecoveryOrder ==
  rout # NotRun
    => IF DirectParse.ok THEN rout = Returned(DirectParse.val)
       ELSE IF FencedParse.ok THEN rout = Returned(FencedParse.val)
       ELSE IF BracesParse.ok THEN rout = Returned(BracesParse.val)
       ELSE ~rout.ok

\* the list holding one object: the direct parse won over the braces
DirectParseWins ==
  /\ rresp = B_listed /\ rout # NotRun
  /\ BracesParse.ok /\ BracesParse.val.t = "dict"
  /\ rout.ok /\ rout.val.t = "list"

(***************************************************************************)
(* More properties of extract (Spec)                                       *)
(***************************************************************************)
Succeeded == pc = "returned" /\ last = "ok"

FailedFallback == pc = "returned" /\ last \notin {"ok", "none"}

\* C12: for max_retries >= 0 an extract call ends in exactly one of
\* succeeded and failed_fallback after at most max_retries + 1 model calls;
\* the attempt indices are 0, 1, ... in order; nothing follows the first
\* successful attempt; failed_fallback comes only after attempt max_retries
\* failed; the record of a success depends only on the response of that
\* attempt and the text
RetryMachine ==
  (mode # "none" /\ max_retries >= 0) =>
    /\ Len(Calls) <= max_retries + 1
    /\ Len(events) <= 2 * max_retries + 1
    /\ \A i \in 1..Len(Calls) : Calls[i].attempt = i - 1
    /\ \A i \in 1..Len(events) :
         (events[i].e = "call" /\ events[i].end = "ok")
           => (i = Len(events) /\ pc \in {"returned", "batch_returned"})
    /\ pc \in {"attempt", "call"} => (attempt <= max_retries /\ Len(Calls) = attempt)
    /\ pc = "returned" => (Succeeded \/ FailedFallback)
    /\ Succeeded =>
         /\ Calls[Len(Calls)].end = "ok"
         /\ ret.t = "dict" /\ K_error \notin DOMAIN ret.d
         /\ reply.kind = "body"
         /\ ret = ProcessBody(reply.body, text, now, 0, 0).val
    /\ FailedFallback =>
         /\ Len(Calls) = max_retries + 1
         /\ \A i \in 1..Len(Calls) : Calls[i].end # "ok"
         /\ ret.t = "dict" /\ K_error \in DOMAIN ret.d

\* the third attempt succeeded after a raised call and an unparseable
\* response
SucceededOnLastAttempt ==
  /\ Succeeded /\ mode = "single" /\ max_retries = 2 /\ Len(Calls) = 3
  /\ Calls[1].end = "raised" /\ Calls[2].end = "recovery"

\* the first 200 characters of the final response as recovery was given it
FinalPreview == SubSeq(Render(StripText(reply.body.toks)), 1, Min(200, Len(Render(StripText(reply.body.toks)))))

\* C13: on exhaustion the error of the fallback record is the message of
\* the failure of the final attempt: the message of the exception the final
\* model call raised, the empty-response message when the final body was
\* empty or whitespace-only, the recovery error with the preview of the
\* final response when that was unparseable
FinalErrorAttribution ==
  (FailedFallback /\ max_retries >= 0) =>
    /\ ret.t = "dict" /\ K_error \in DOMAIN ret.d
    /\ Calls[Len(Calls)].attempt = max_retries
    /\ last = "raised" => (reply.kind = "raise" /\ ret.d[K_error] = PyStr(reply.msg))
    /\ last = "empty" =>
         /\ reply.kind = "body" /\ IsEmptyBody(reply.body)
         /\ ret.d[K_error] = PyStr(<<"E","m","p","t","y"," ","r","e","s","p","o","n","s","e"," ","f","r","o","m"," ","m","o","d","e","l"," ","a","f","t","e","r"," ","a","l","l"," ","r","e","t","r","i","e","s">>)
    /\ last = "recovery" =>
         /\ reply.kind = "body" /\ ~IsEmptyBody(reply.body)
         /\ ret.d[K_error] = PyStr(<<"C","o","u","l","d"," ","n","o","t"," ","e","x","t","r","a","c","t"," ","v","a","l","i","d"," ","J","S","O","N"," ","f","r","o","m"," ","r","e","s","p","o","n","s","e",":"," ">> \o FinalPreview)
    /\ last = "validation" =>
         /\ reply.kind = "body" /\ ~IsEmptyBody(reply.body)
         /\ ret.d[K_error] = PyStr(ValidateAndFix(ExtractJsonFromResponse(StripText(reply.body.toks)).val, text, now).exc.msg)

\* a raised call, an empty body, then an unparseable response: the error is
\* the recovery error of the third attempt
ErrorOfFinalAttempt ==
  /\ FailedFallback /\ Len(Calls) = 3
  /\ Calls[1].end = "raised" /\ Calls[2].end = "empty" /\ Calls[3].end = "recovery"
  /\ ret.d[K_error] = PyStr(<<"C","o","u","l","d"," ","n","o","t"," ","e","x","t","r","a","c","t"," ","v","a","l","i","d"," ","J","S","O","N"," ","f","r","o","m"," ","r","e","s","p","o","n","s","e",":"," ">> \o Render(B_junk))

(***************************************************************************)
(* More properties of _validate_and_fix (SpecValidator)                    *)
(***************************************************************************)
\* the value the structure given has for key k, Missing when it has none
In(k) == IF k \in DOMAIN vdata.d THEN vdata.d[k] ELSE Missing

\* the value the record returned has for key k
Out(k) == vout.val.d[k]

\* C14: (a) a deadline string that passes ISO validation is returned
\* unchanged, whatever the text; (b) a deadline string that fails it is
\* replaced by the result of the relative date parser on the text; (c) a
\* present deadline that is not a string, falsy ones included, becomes null;
\* (d) a null or missing deadline stays null
DeadlineRepair ==
  ValidatorReturned =>
    /\ (In(K_deadline).t = "str" /\ IsoParses(In(K_deadline).s)) => Out(K_deadline) = In(K_deadline)
    /\ (In(K_deadline).t = "str" /\ ~IsoParses(In(K_deadline).s))
         => Out(K_deadline) = ParseRelativeDate(vtext, now).val
    /\ In(K_deadline).t \in {"int", "float", "bool", "list", "dict"} => Out(K_deadline) = PyNone
    /\ In(K_deadline).t \in {"none", "missing"} => Out(K_deadline) = PyNone

\* the deadline 0 was given and is returned
FalsyDeadlineKept ==
  /\ ValidatorReturned
  /\ In(K_deadline) = PyInt(0, 0) /\ Out(K_deadline) = PyInt(0, 0)

\* the deadline as the urgency step finds it: as given, None when missing
DeadlineGiven == IF In(K_deadline) = Missing THEN PyNone ELSE In(K_deadline)

\* C15: an urgency low, medium or high is returned unchanged, whatever the
\* text; any other urgency is replaced by the urgency inferred from the
\* text and the deadline as given, before the deadline is repaired
UrgencyRepair ==
  ValidatorReturned =>
    IF In(K_urgency) \in UrgencyEnum THEN Out(K_urgency) = In(K_urgency)
    ELSE Out(K_urgency) = PyStr(InferUrgency(vtext, DeadlineGiven, now))

\* urgency "URGENT!" with a deadline that is no ISO date: the deadline is
\* repaired to a date in the past, which would infer high, and the urgency
\* inferred from the deadline as given is low
UrgencyFromDeadlineGiven ==
  /\ ValidatorReturned /\ now = Today
  /\ In(K_urgency) = PyStr(<<"U","R","G","E","N","T","!">>) /\ In(K_deadline) = PyStr(<<"M","a","r","c","h"," ","1","5">>)
  /\ vtext = <<"O","r","d","e","r"," ","1","2"," ","t","r","u","c","k","l","o","a","d","s"," ","o","f"," ","r","i","v","e","r"," ","s","a","n","d"," ","b","y"," ","A","p","r","i","l"," ","e","n","d">>
  /\ Out(K_deadline) = PyStr(<<"2","0","2","6","-","0","4","-","3","0">>)
  /\ InferUrgency(vtext, Out(K_deadline), now) = High
  /\ Out(K_urgency) = PyStr(Low)

HighWords ==
  {<<"u","r","g","e","n","t">>, <<"u","r","g","e","n","t","l","y">>, <<"a","s","a","p">>, <<"i","m","m","e","d","i","a","t","e","l","y">>, <<"t","o","d","a","y">>, <<"t","o","m","o","r","r","o","w">>, <<"c","r","i","t","i","c","a","l">>, <<"e","m","e","r","g","e","n","c","y">>}

MediumWords == {<<"s","o","o","n">>, <<"n","e","e","d","e","d">>, <<"r","e","q","u","i","r","e","d">>, <<"p","r","i","o","r","i","t","y">>}

LowWords == {<<"e","v","e","n","t","u","a","l","l","y">>, <<"w","h","e","n"," ","p","o","s","s","i","b","l","e">>}

\* the text has one of the words, in any case, as a substring
TextHas(words) == \E w \in words : Contains(Lower(vtext), w)

\* the validator was given an urgency it replaces by the inferred one
UrgencyInferred == ValidatorReturned /\ In(K_urgency) \notin UrgencyEnum

\* C16: the text is matched case-insensitively by substring against the
\* keywords in the order high, medium, low, and the first level with a
\* matching keyword is the result, whatever keywords of later levels match
\* and whatever the deadline
KeywordPriority ==
  UrgencyInferred =>
    /\ TextHas(HighWords) => Out(K_urgency) = PyStr(High)
    /\ (~TextHas(HighWords) /\ TextHas(MediumWords)) => Out(K_urgency) = PyStr(Medium)
    /\ (~TextHas(HighWords) /\ ~TextHas(MediumWords) /\ TextHas(LowWords)) => Out(K_urgency) = PyStr(Low)

\* a text with only "eventually" and a deadline two days away: low
LowKeywordOverDeadline ==
  /\ UrgencyInferred /\ now = Today
  /\ vtext = <<"T","i","l","e","s"," ","e","v","e","n","t","u","a","l","l","y">> /\ In(K_deadline) = PyStr(<<"2","0","2","6","-","1","1","-","0","4">>)
  /\ Out(K_urgency) = PyStr(Low)

\* calendar days from the current date to the date of the ISO string s
CalendarDaysUntil(s) ==
  Ordinal(DigitsValue(SubSeq(s, 1, 4)), DigitsValue(SubSeq(s, 6, 7)), DigitsValue(SubSeq(s, 9, 10)))
    - Ordinal(now.year, now.month, now.day)

\* C17: when no keyword matches and the deadline parses as a date, the
\* urgency inferred is high for fewer than 7 days until the deadline,
\* medium for 7 to 29, low otherwise, counted in calendar days at every
\* time of day; when the deadline is null, not a string or unparseable it
\* is low
DeadlineProximity ==
  (UrgencyInferred /\ ~TextHas(HighWords) /\ ~TextHas(MediumWords) /\ ~TextHas(LowWords)) =>
    IF DeadlineGiven.t = "str" /\ IsoParses(DeadlineGiven.s)
      THEN Out(K_urgency) = PyStr(IF CalendarDaysUntil(DeadlineGiven.s) < 7 THEN High
                                  ELSE IF CalendarDaysUntil(DeadlineGiven.s) < 30 THEN Medium
                                  ELSE Low)
    ELSE Out(K_urgency) = PyStr(Low)

\* at noon, a deadline exactly 7 calendar days after the current date: high
SevenDaysAtNoonIsHigh ==
  /\ UrgencyInferred /\ now = Today /\ now.secs = 43200
  /\ vtext = T_bricks /\ In(K_deadline) = PyStr(<<"2","0","2","6","-","1","1","-","0","9">>)
  /\ CalendarDaysUntil(In(K_deadline).s) = 7
  /\ Out(K_urgency) = PyStr(High)

\* the validator consults the relative date parser: the deadline given is a
\* non-empty string that fails ISO validation and the quantity step passed
ParserConsulted ==
  /\ vout # NotRun /\ vdata.t = "dict"
  /\ In(K_deadline).t = "str" /\ In(K_deadline).s # EmptyStr /\ ~IsoParses(In(K_deadline).s)
  /\ In(K_quantity) # PyInt(1, 400)

\* where the lowered text first matches "in N day", 0 for nowhere
InDaysAt == FirstMatch({i \in 1..Len(vtext) : DaysMatchAt(Lower(vtext), i)})

\* where the lowered text first matches "by <word> end", 0 for nowhere
ByEndAt == FirstMatch({i \in 1..Len(vtext) : MonthEndMatchAt(Lower(vtext), i)})

MonthNames ==
  << <<"j","a","n","u","a","r","y">>, <<"f","e","b","r","u","a","r","y">>, <<"m","a","r","c","h">>, <<"a","p","r","i","l">>, <<"m","a","y">>, <<"j","u","n","e">>, <<"j","u","l","y">>, <<"a","u","g","u","s","t">>,
     <<"s","e","p","t","e","m","b","e","r">>, <<"o","c","t","o","b","e","r">>, <<"n","o","v","e","m","b","e","r">>, <<"d","e","c","e","m","b","e","r">> >>

LastDays == <<31, IF IsLeap(now.year) THEN 29 ELSE 28, 31, 30, 31, 30, 31, 31, 30, 31, 30, 31>>

\* the last day of the named month in the current year, as YYYY-MM-DD
MonthEndDate(word) ==
  LET m == CHOOSE i \in 1..12 : MonthNames[i] = word
  IN PyStr(Pad4(now.year) \o <<"-">> \o Pad2(m) \o <<"-">> \o Pad2(LastDays[m]))

\* the current date plus n days, as YYYY-MM-DD
DateAfter(n) == PyStr(FormatDate(DateOfOrdinal(Ordinal(now.year, now.month, now.day) + n)))

\* C18: a text matching "in N day(s)" gives the current date plus N days,
\* also when it matches "by <month> end"; otherwise a text matching
\* "by <word> end" with an English month name gives the last day of that
\* month in the current year; otherwise the result is null; every result
\* that is not null is a valid date YYYY-MM-DD
RelativeDateRules ==
  ParserConsulted =>
    /\ vout.ok
    /\ IF InDaysAt # 0
         THEN Out(K_deadline) = DateAfter(DigitsValue(DaysMatchGroup(Lower(vtext), InDaysAt)))
       ELSE IF ByEndAt # 0 /\ \E i \in 1..12 : MonthNames[i] = MonthEndMatchGroup(Lower(vtext), ByEndAt)
         THEN Out(K_deadline) = MonthEndDate(MonthEndMatchGroup(Lower(vtext), ByEndAt))
       ELSE Out(K_deadline) = PyNone
    /\ Out(K_deadline) # PyNone => (Out(K_deadline).t = "str" /\ IsIsoDate(Out(K_deadline).s))

\* "in 99999999999 days": the parser raises OverflowError and so does the
\* validator
RelativeDateOverflow ==
  /\ ParserConsulted /\ vtext = <<"s","a","n","d"," ","r","e","q","u","i","r","e","d"," ","i","n"," ","9","9","9","9","9","9","9","9","9","9","9"," ","d","a","y","s">>
  /\ ~vout.ok /\ vout.exc.cls = "OverflowError"

StringFields == {K_material_name, K_unit, K_project_name, K_location}

\* C19: after validation each of material_name, unit, project_name and
\* location is null or a non-empty string other than "null"; a value that
\* is neither a string nor null is converted to its string representation;
\* an empty string or the string "null" becomes null; what a field becomes
\* depends on that field alone
StringNormalization ==
  ValidatorReturned =>
    \A f \in StringFields :
      /\ Out(f) = PyNone \/ (Out(f).t = "str" /\ Out(f).s # EmptyStr /\ Out(f).s # <<"n","u","l","l">>)
      /\ In(f).t \in {"missing", "none"} => Out(f) = PyNone
      /\ In(f).t = "str" =>
           Out(f) = (IF In(f).s = EmptyStr \/ In(f).s = <<"n","u","l","l">> THEN PyNone ELSE In(f))
      /\ In(f).t \in {"int", "float", "bool", "list", "dict"} => Out(f) = PyStr(StrOf(In(f)))

\* the number 5, the string "null" and the empty string were given
StringsCleaned ==
  /\ ValidatorReturned
  /\ In(K_unit) = PyInt(5, 0) /\ Out(K_unit) = PyStr(<<"5">>)
  /\ In(K_project_name) = PyStr(<<"n","u","l","l">>) /\ Out(K_project_name) = PyNone
  /\ In(K_location) = PyStr(EmptyStr) /\ Out(K_location) = PyNone
  /\ Out(K_material_name) = PyStr(<<"c","e","m","e","n","t">>)

\* the structure given has the seven keys, a valid urgency, a null or ISO
\* deadline and a null or numeric quantity
ConformantButStrings ==
  /\ vdata.t = "dict" /\ DOMAIN vdata.d = RequiredSet
  /\ In(K_urgency) \in UrgencyEnum
  /\ In(K_deadline) = PyNone \/ (In(K_deadline).t = "str" /\ IsoParses(In(K_deadline).s))
  /\ In(K_quantity).t \in {"none", "int", "float"}

\* the record returned has the values of the structure given, a quantity
\* counting as the same when it is the same number
ReturnedUnchanged ==
  \A k \in RequiredSet :
    \/ Out(k) = In(k)
    \/ /\ k = K_quantity /\ In(k).t \in {"int", "float"} /\ Out(k).t = "float"
       /\ Out(k).m = In(k).m /\ Out(k).e = In(k).e

\* the seven fields of the fallback record
FallbackFields == PyDict([k \in RequiredSet |-> Fallback(EmptyResponseError)[k]])

====
